---- MODULE Spec2Model ----
(***************************************************************************)
(* The OpenCart API client (utils/api/opencart_api_client.py), the cart    *)
(* fixtures built on it (tests/backend/api/conftest.py) and the server     *)
(* side cart they observe, as one state machine.                           *)
(*                                                                         *)
(* A call of the client is one atomic step: the test runner executes one   *)
(* test at a time and every call blocks until its HTTP exchange is over.   *)
(* The server is the environment.  Its cart follows the HTTP API surface   *)
(* the client consumes; the body of a reply is, in Spec, either the body   *)
(* that surface prescribes or an arbitrary text (blank, or not JSON), and  *)
(* in SpecContract always the prescribed body.                             *)
(*                                                                         *)
(* The browser side is a second state machine over its own variables:      *)
(* the fixtures and failure hooks of tests/frontend/pw/conftest.py,        *)
(* tests/frontend/sel/conftest.py and conftest.py as the test runner       *)
(* drives them, one test after the other, and the page object              *)
(* pages/pw/base_page.py.  SpecUI is the specification of the runner,      *)
(* SpecUIFair the same with the runner's progress assumed, SpecPage the    *)
(* one of a page object and the calls of its verbs.                        *)
(***************************************************************************)
EXTENDS Integers, Sequences, FiniteSets, TLC

VARIABLES
    api_token,   \* OpenCartAPIClient.api_token: a JSON value, JNull for None
    cookies,     \* the OCSESSID entry of session.cookies: NoCookie or a JSON value
    cart,        \* server: the session's cart, a sequence of line items
    next_id,     \* server: the next line-item id it will assign
    last,        \* the last client call: what it was, how it ended, what it sent
    logged_in,   \* history: login has returned normally at least once
    pc,          \* clean_cart: where the fixture (and the test using it) stands
    todo,        \* clean_cart: the products its for-loop has still to visit
    since_empty, \* history: the add_to_cart calls made since the cart was last empty
    client_host, \* OpenCartAPIClient.base_url: the host in it
    runner,      \* the test runner: the test it is at, the phase of it, the reports so far
    context,     \* Playwright: the BrowserContext of the browser_context fixture
    page,        \* Playwright: the Page of the page fixture
    grid,        \* Selenium: the sessions the grid was asked for and still holds
    driver,      \* Selenium: the remote WebDriver of the driver fixture
    base_page,   \* a BasePage instance: its fields and the page it is bound to
    ui_last      \* the last BasePage call: what it was, what it handed on, how it ended

api_vars ==
    <<api_token, cookies, cart, next_id, last, logged_in, pc, todo, since_empty, client_host>>
ui_vars == <<runner, context, page, grid, driver, base_page, ui_last>>
vars == <<api_vars, ui_vars>>

-----------------------------------------------------------------------------
(* Bounds of the model. *)

\* the server stops assigning line-item ids after this many
MaxLines == 2
\* the largest quantity one add_to_cart asks for, and one line item reaches
MaxQty == 3
\* how far beyond the excerpt length the longest reply body reaches
MaxOver == 1
\* the tests the runner executes in one session
MaxTests == 2

(* Program constants. *)

\* response.text[:200] in get_cart's parse failure
ExcerptLen == 200
\* the product ids the tests use: MacBook, iPhone, and one the store does not have
MacBook == 43
IPhone == 40
InvalidProduct == 99999
\* BasePage.__init__: the seconds it takes when the configuration names none
DefaultSeconds == 30
\* BasePage.__init__: "Convert to ms"
MsPerSecond == 1000
\* BasePage.is_visible: the default of its timeout parameter, in ms
IsVisibleTimeout == 5000
\* the driver fixture: the implicit wait when the configuration names none
ImplicitWaitSeconds == 30
\* playwright's expect: the timeout of an assertion that is given none, in ms
ExpectTimeout == 5000

-----------------------------------------------------------------------------
(* JSON values, as Python sees them after response.json(): a tag and a     *)
(* payload.  A str carries its text, an int its decimal text, a list or    *)
(* an object a summary of its content ("" when empty).                     *)

JNull == [t |-> "null", s |-> ""]
JStr(x) == [t |-> "str", s |-> x]
JInt(x) == [t |-> "int", s |-> x]
JList(x) == [t |-> "list", s |-> x]
JObj(x) == [t |-> "obj", s |-> x]

\* bool(v) in Python
Truthy(v) ==
    CASE v.t = "null" -> FALSE
      [] v.t = "int" -> v.s # "0"
      [] OTHER -> v.s # ""

\* v[:10] does not raise TypeError
Sliceable(v) == v.t \in {"str", "list"}

\* 'key' in response_json, for a JSON object held as a function from its keys
HasKey(obj, key) == key \in DOMAIN obj

Digit(d) ==
    CASE d = 0 -> "0" [] d = 1 -> "1" [] d = 2 -> "2" [] d = 3 -> "3" [] d = 4 -> "4"
      [] d = 5 -> "5" [] d = 6 -> "6" [] d = 7 -> "7" [] d = 8 -> "8" [] d = 9 -> "9"

\* the decimal text of a natural number
RECURSIVE DecStr(_)
DecStr(n) == IF n < 10 THEN Digit(n) ELSE DecStr(n \div 10) \o Digit(n % 10)

-----------------------------------------------------------------------------
(* Reply bodies.  A body is a JSON object or a text that is not JSON; a    *)
(* text is a sequence of characters.                                       *)

Whitespace == {" ", "\n", "\t"}

JsonBody(obj) == [kind |-> "json", json |-> obj, text |-> <<>>]
TextBody(chars) == [kind |-> "text", json |-> [none |-> JNull], text |-> chars]

\* a text of n characters that is not JSON: it starts with "<"
Filler(n) == [i \in 1..n |-> IF i = 1 THEN "<" ELSE IF i % 2 = 0 THEN "x" ELSE "y"]

\* response.text of a JSON body is never blank: it starts with "{"
IsBlank(body) == body.kind = "text" /\ \A i \in DOMAIN body.text : body.text[i] \in Whitespace

\* the texts a reply may carry instead of JSON: empty, blank, short, and long ones
\* around the excerpt length
ShortTexts == {<<>>, <<"\n", " ">>, <<"<", "x">>, <<" ", "<">>}
LongTexts == {Filler(n) : n \in ExcerptLen..(ExcerptLen + MaxOver)}

\* an HTTP reply: status code and body
Reply(status, body) == [status |-> status, body |-> body]

\* the replies that carry such a text: a short one at 200 OK, an error page at 500
FaultReplies ==
    {Reply(200, TextBody(t)) : t \in ShortTexts} \cup {Reply(500, TextBody(t)) : t \in LongTexts}

\* the two of them that tell the calls apart that only parse the body: empty, and not JSON
ParseFaults == {Reply(200, TextBody(<<>>)), Reply(500, TextBody(<<"<", "x">>))}

\* the replies an exchange may bring instead of the body the server owes
Faults(faulty, all) == IF ~faulty THEN {} ELSE IF all THEN FaultReplies ELSE ParseFaults

-----------------------------------------------------------------------------
(* The server side of the HTTP API surface the client consumes.  A line    *)
(* item carries the id the server assigned to it (cart_id), the product    *)
(* and the quantity; the view of it in the cart JSON gives the quantity    *)
(* as a numeric string.                                                    *)

ValidProducts == {MacBook, IPhone}

\* requests.Session.request: method, route and the form fields
Request(method, route, data) == [method |-> method, route |-> route, data |-> data]

\* data=None
NoData == <<>>

LineView(line) ==
    [cart_id |-> line.cart_id, product_id |-> line.product_id,
     quantity |-> DecStr(line.quantity)]

\* the JSON of GET api/sale/cart
CartView(c) ==
    [products |-> [i \in DOMAIN c |-> LineView(c[i])],
     totals |-> <<[title |-> "Sub-Total"], [title |-> "Total"]>>,
     vouchers |-> <<>>,
     shipping_required |-> (c # <<>>)]

Success == [success |-> JStr("Success: You have modified your shopping cart!")]
Failure == [error |-> JObj("product")]

IndexOfProduct(c, p) ==
    IF \E i \in DOMAIN c : c[i].product_id = p
    THEN CHOOSE i \in DOMAIN c : c[i].product_id = p
    ELSE 0

\* POST api/sale/cart.add: product_id, and quantity (1 when the field is absent)
ServerAdd(data, c, n) ==
    LET q == IF HasKey(data, "quantity") THEN data.quantity ELSE 1
        p == IF HasKey(data, "product_id") THEN data.product_id ELSE 0
        i == IndexOfProduct(c, p)
    IN  IF p \notin ValidProducts \/ q < 1
        THEN [body |-> Failure, cart |-> c, next_id |-> n]
        ELSE IF i # 0
        THEN [body |-> Success,
              cart |-> [c EXCEPT ![i].quantity = @ + q], next_id |-> n]
        ELSE [body |-> Success,
              cart |-> Append(c, [cart_id |-> n, product_id |-> p, quantity |-> q]),
              next_id |-> n + 1]

\* POST api/sale/cart.remove: key is the id of the line item to drop
ServerRemove(data, c, n) ==
    [body |-> Success,
     cart |-> IF HasKey(data, "key")
              THEN SelectSeq(c, LAMBDA line : line.cart_id # data.key)
              ELSE c,
     next_id |-> n]

\* what the server does with a request: the body it owes, and its cart afterwards
ServerStep(req, c, n) ==
    CASE req.method = "GET" /\ req.route = "api/sale/cart" ->
            [body |-> CartView(c), cart |-> c, next_id |-> n]
      [] req.method = "POST" /\ req.route = "api/sale/cart.add" -> ServerAdd(req.data, c, n)
      [] req.method = "POST" /\ req.route = "api/sale/cart.remove" -> ServerRemove(req.data, c, n)
      [] req.method = "POST" /\ req.route = "api/sale/customer" ->
            [body |-> [success |-> JStr("customer")], cart |-> c, next_id |-> n]
      [] req.method = "POST" /\ req.route = "api/sale/order.load" ->
            [body |-> [order |-> JObj("order")], cart |-> c, next_id |-> n]
      [] OTHER -> [body |-> [error |-> JStr("route")], cart |-> c, next_id |-> n]

\* the model's bounds on the server: line-item ids and quantities stay small
ServerInBounds(req, c, n) ==
    LET s == ServerStep(req, c, n)
    IN  /\ s.next_id <= MaxLines + 1
        /\ \A i \in DOMAIN s.cart : s.cart[i].quantity <= MaxQty

-----------------------------------------------------------------------------
(* The client, OpenCartAPIClient.  Every method is an operator from the    *)
(* client's fields, the arguments and the reply the exchange brings to a   *)
(* call record: how the call ended, with what, and the requests it sent.   *)

Raised(exc, msg, detail, sent) ==
    [outcome |-> "raised", exc |-> exc, msg |-> msg, detail |-> detail,
     value |-> JNull, sent |-> sent]

Returned(value, sent) ==
    [outcome |-> "returned", exc |-> "", msg |-> "", detail |-> <<>>,
     value |-> value, sent |-> sent]

\* the reply of an exchange that is not looked at
NoReply == Reply(0, TextBody(<<>>))

\* session.cookies without an OCSESSID entry
NoCookie == [t |-> "absent", s |-> ""]

\* response.json()
json(response, sent) ==
    IF response.body.kind = "json"
    THEN Returned(response.body.json, sent)
    ELSE Raised("ValueError", "JSONDecodeError", response.body.text, sent)

\* the domain login gives the OCSESSID entry
CookieDomain == "192.168.50.103"

\* the OCSESSID cookie the session adds to a request to `host`: the entry's
\* domain is the one login set, and requests sends a cookie only to the
\* host of its domain
cookie_header(host, jar) == IF host = CookieDomain THEN jar ELSE NoCookie

\* session.cookies.set('OCSESSID', value, ...): a value of None removes the entry
cookies_set(value) == IF value.t = "null" THEN NoCookie ELSE value

\* a slip: an `error` counts only when the status code is not 200
login_failed_by_status(response, response_json) ==
    HasKey(response_json, "error") /\ response.status # 200

\* login's check for errors: if 'error' in response_json
login_failed(response, response_json) == HasKey(response_json, "error")

\* a slip: the last branch hands the body back
login_no_token_returns(parsed, sent) == parsed

\* login's last branch, for a body without api_token
login_no_token(parsed, sent) ==
    Raised("AssertionError", "No api_token in response", <<>>, sent)

\* login: the call record, and the client's fields after the call.  The token is
\* stored and the cookie set before the log line slices the token, which raises
\* TypeError for a token that is no string.
login(tok, ck, username, api_key, response) ==
    LET sent == <<Request("POST", "api/account/login",
                          [username |-> username, key |-> api_key])>>
        parsed == json(response, sent)
        same(call) == [call |-> call, api_token |-> tok, cookies |-> ck]
    IN  IF parsed.outcome = "raised" THEN same(parsed)
        ELSE IF login_failed(response, parsed.value)
        THEN same(Raised("AssertionError", "Login failed: ", parsed.value.error, sent))
        ELSE IF HasKey(parsed.value, "api_token")
        THEN [call |-> IF Sliceable(parsed.value.api_token)
                       THEN parsed
                       ELSE Raised("TypeError", "not subscriptable",
                                   parsed.value.api_token, sent),
              api_token |-> parsed.value.api_token,
              cookies |-> cookies_set(parsed.value.api_token)]
        ELSE same(login_no_token(parsed, sent))

\* _ensure_authenticated: TRUE when it returns, FALSE when it raises
ensure_authenticated(tok) == Truthy(tok)

NotAuthenticated ==
    Raised("AssertionError", "Not authenticated. Call login() first.", <<>>, <<>>)

get(tok, route, params, response) ==
    IF ~ensure_authenticated(tok) THEN NotAuthenticated
    ELSE Returned(response, <<Request("GET", route, params)>>)

post(tok, route, data, response) ==
    IF ~ensure_authenticated(tok) THEN NotAuthenticated
    ELSE Returned(response, <<Request("POST", route, data)>>)

delete(tok, route, data, response) == post(tok, route, data, response)

\* the result get_cart gives for an empty response body
EmptyCart ==
    [products |-> <<>>, totals |-> <<>>, vouchers |-> <<>>, shipping_required |-> FALSE]

\* a slip: the whole text, as in the logger.error line
Excerpt_whole(text, n) == text

\* text[:n]
Excerpt(text, n) == SubSeq(text, 1, IF Len(text) < n THEN Len(text) ELSE n)

\* a slip: the text is not stripped
no_content_unstripped(response) == response.body.kind = "text" /\ response.body.text = <<>>

\* get_cart's check for content: not response.text or response.text.strip() == ''
no_content(response) == IsBlank(response.body)

get_cart(tok, response) ==
    LET r == get(tok, "api/sale/cart", NoData, response)
    IN  IF r.outcome = "raised" THEN r
        ELSE IF no_content(r.value) THEN Returned(EmptyCart, r.sent)
        ELSE IF r.value.body.kind = "json" THEN Returned(r.value.body.json, r.sent)
        ELSE Raised("AssertionError", "Invalid JSON response: ",
                    Excerpt(r.value.body.text, ExcerptLen), r.sent)

\* a slip: the quantity is left out of the form
add_to_cart_data_no_quantity(product_id, quantity) == [product_id |-> product_id]

\* the form fields of add_to_cart
add_to_cart_data(product_id, quantity) == [product_id |-> product_id, quantity |-> quantity]

add_to_cart(tok, product_id, quantity, response) ==
    LET r == post(tok, "api/sale/cart.add", add_to_cart_data(product_id, quantity), response)
    IN  IF r.outcome = "raised" THEN r ELSE json(r.value, r.sent)

\* a slip: the id goes out under the product's field name
remove_from_cart_data_by_product(cart_id) == [product_id |-> cart_id]

\* the form fields of remove_from_cart
remove_from_cart_data(cart_id) == [key |-> cart_id]

remove_from_cart(tok, cart_id, response) ==
    LET r == post(tok, "api/sale/cart.remove", remove_from_cart_data(cart_id), response)
    IN  IF r.outcome = "raised" THEN r ELSE json(r.value, r.sent)

set_customer(tok, customer_data, response) ==
    LET r == post(tok, "api/sale/customer", customer_data, response)
    IN  IF r.outcome = "raised" THEN r ELSE json(r.value, r.sent)

get_order(tok, order_id, response) ==
    LET r == post(tok, "api/sale/order.load", [order_id |-> order_id], response)
    IN  IF r.outcome = "raised" THEN r ELSE json(r.value, r.sent)

\* a slip: the value of `error` is tested, not its presence
assert_success_truthy(response_json) ==
    IF HasKey(response_json, "error") /\ Truthy(response_json.error)
    THEN Raised("AssertionError", "API error: ", response_json.error, <<>>)
    ELSE Returned(JNull, <<>>)

assert_success(response_json) ==
    IF HasKey(response_json, "error")
    THEN Raised("AssertionError", "API error: ", response_json.error, <<>>)
    ELSE Returned(JNull, <<>>)

-----------------------------------------------------------------------------
(* The state machine. *)

\* the credentials the client was constructed with
Username == "api_user"
ApiKey == "api_key"

\* the status codes a login is answered with
Statuses == {200, 401}

\* the bodies a login can be answered with: `error`, `api_token`, both, neither
ErrorValues == {JStr("denied"), JStr(""), JNull}
TokenValues == {JNull, JStr(""), JStr("tokA"), JInt("7")}
LoginObjects ==
    {[error |-> e] : e \in ErrorValues}
    \cup {[api_token |-> t] : t \in TokenValues}
    \cup {[error |-> e, api_token |-> JStr("tokA")] : e \in ErrorValues}
    \cup {[success |-> JStr("ok")]}

\* the arguments the callers pass
ProductArgs == {MacBook, IPhone, InvalidProduct}
QuantityArgs == 1..MaxQty
CartIdArgs == (1..MaxLines) \cup {MacBook}
GetArgs == {<<"api/sale/cart", NoData>>, <<"api/setting", NoData>>}
PostArgs == {<<"api/sale/cart.add", [product_id |-> IPhone]>>,
             <<"api/sale/customer", [firstname |-> "a"]>>}
DeleteArgs == {<<"api/sale/cart.remove", [key |-> 1]>>}
CustomerArgs == {[firstname |-> "a", email |-> "a@b.c"]}
OrderArgs == {1}

\* the bodies handed to assert_success: every shape of `error`, `warning` alone, neither
ErrorShapes == {JStr(""), JStr("denied"), JList(""), JList("x"), JObj(""), JObj("product"), JNull}
AssertArgs ==
    {[error |-> e] : e \in ErrorShapes}
    \cup {[error |-> JStr(""), success |-> JStr("ok")], [warning |-> JStr("stock")], Success}

Idle == [at |-> "idle", outcome |-> "none"]

\* OpenCartAPIClient(base_url, username, api_key), base_url on one of `hosts`
InitClient(hosts) ==
    /\ client_host \in hosts
    /\ api_token = JNull
    /\ cookies = NoCookie
    /\ cart = <<>>
    /\ next_id = 1
    /\ last = [op |-> "init", args |-> <<>>, call |-> Returned(JNull, <<>>), reply |-> NoReply]
    /\ logged_in = FALSE
    /\ pc = Idle
    /\ todo = <<>>
    /\ since_empty = [ok |-> TRUE, adds |-> <<>>]

\* the client of the test configuration, whose base_url is on the host the
\* cookie is set for
Init == InitClient({CookieDomain})

\* history: the add_to_cart calls since the cart was last empty, as long as they
\* were for distinct products the store has and nothing else touched the cart
History(op, args, c2) ==
    IF c2 = <<>> THEN [ok |-> TRUE, adds |-> <<>>]
    ELSE IF op = "add_to_cart"
    THEN IF /\ since_empty.ok
            /\ args[1] \in ValidProducts
            /\ \A i \in DOMAIN since_empty.adds : since_empty.adds[i].product_id # args[1]
         THEN [ok |-> TRUE,
               adds |-> Append(since_empty.adds, [product_id |-> args[1], quantity |-> args[2]])]
         ELSE [ok |-> FALSE, adds |-> <<>>]
    ELSE IF c2 # cart THEN [ok |-> FALSE, adds |-> <<>>]
    ELSE since_empty

\* the method of the client that `op` names, applied to `args`
Dispatch(op, args, tok, response) ==
    CASE op = "get" -> get(tok, args[1], args[2], response)
      [] op = "post" -> post(tok, args[1], args[2], response)
      [] op = "delete" -> delete(tok, args[1], args[2], response)
      [] op = "get_cart" -> get_cart(tok, response)
      [] op = "add_to_cart" -> add_to_cart(tok, args[1], args[2], response)
      [] op = "remove_from_cart" -> remove_from_cart(tok, args[1], response)
      [] op = "set_customer" -> set_customer(tok, args[1], response)
      [] op = "get_order" -> get_order(tok, args[1], response)

\* One call of the client that is not login: the request it sends, if any, reaches
\* the server, and a reply comes back: the body the server owes or one of `faults`.
Perform(op, args, faults) ==
    LET call(response) == Dispatch(op, args, api_token, response)
        probe == call(NoReply)
    IN  /\ UNCHANGED <<api_token, cookies, logged_in>>
        /\ IF probe.sent = <<>>
           THEN /\ last' = [op |-> op, args |-> args, call |-> probe, reply |-> NoReply]
                /\ UNCHANGED <<cart, next_id, since_empty>>
           ELSE LET req == probe.sent[1]
                    srv == ServerStep(req, cart, next_id)
                IN  /\ ServerInBounds(req, cart, next_id)
                    /\ \E reply \in {Reply(200, JsonBody(srv.body))} \cup faults :
                         last' = [op |-> op, args |-> args, call |-> call(reply),
                                  reply |-> reply]
                    /\ cart' = srv.cart
                    /\ next_id' = srv.next_id
                    /\ since_empty' = History(op, args, srv.cart)

\* a caller outside the fixture's own code: another test between two uses of
\* clean_cart, or the body of the test that got the client from it
Calling == pc.at \in {"idle", "yielded", "test"}
Called ==
    /\ pc' = IF pc.at = "idle" THEN pc ELSE [at |-> "test", outcome |-> "none"]
    /\ UNCHANGED todo

Login(faulty) ==
    /\ pc.at = "idle"
    /\ \E reply \in {Reply(st, JsonBody(o)) : st \in Statuses, o \in LoginObjects} \cup Faults(faulty, FALSE) :
         LET r == login(api_token, cookies, Username, ApiKey, reply)
         IN  /\ last' = [op |-> "login", args |-> <<>>, call |-> r.call, reply |-> reply]
             /\ api_token' = r.api_token
             /\ cookies' = r.cookies
             /\ logged_in' = (logged_in \/ r.call.outcome = "returned")
    /\ UNCHANGED <<cart, next_id, pc, todo, since_empty>>

Get(faulty) ==
    /\ pc.at = "idle"
    /\ UNCHANGED <<pc, todo>>
    /\ \E a \in GetArgs :
         Perform("get", a, Faults(faulty, FALSE))

Post(faulty) ==
    /\ pc.at = "idle"
    /\ UNCHANGED <<pc, todo>>
    /\ \E a \in PostArgs :
         Perform("post", a, Faults(faulty, FALSE))

Delete(faulty) ==
    /\ pc.at = "idle"
    /\ UNCHANGED <<pc, todo>>
    /\ \E a \in DeleteArgs :
         Perform("delete", a, Faults(faulty, FALSE))

GetCart(faulty) ==
    /\ Calling /\ Called
    /\ Perform("get_cart", <<>>, Faults(faulty, TRUE))

AddToCart(faulty) ==
    /\ Calling /\ Called
    /\ \E p \in ProductArgs, q \in QuantityArgs :
         Perform("add_to_cart", <<p, q>>, Faults(faulty, FALSE))

RemoveFromCart(faulty) ==
    /\ Calling /\ Called
    /\ \E id \in CartIdArgs :
         Perform("remove_from_cart", <<id>>, Faults(faulty, FALSE))

SetCustomer(faulty) ==
    /\ pc.at = "idle"
    /\ UNCHANGED <<pc, todo>>
    /\ \E d \in CustomerArgs :
         Perform("set_customer", <<d>>, Faults(faulty, FALSE))

GetOrder(faulty) ==
    /\ pc.at = "idle"
    /\ UNCHANGED <<pc, todo>>
    /\ \E o \in OrderArgs :
         Perform("get_order", <<o>>, Faults(faulty, FALSE))

AssertSuccess ==
    /\ Calling /\ Called
    /\ \E body \in AssertArgs :
         last' = [op |-> "assert_success", args |-> <<body>>,
                  call |-> assert_success(body), reply |-> NoReply]
    /\ UNCHANGED <<api_token, cookies, cart, next_id, logged_in, since_empty>>

-----------------------------------------------------------------------------
(* The clean_cart fixture: get the cart and remove every product that has  *)
(* a cart_id, hand the client to the test, and do the same again once the  *)
(* test is over.  It depends on api_client, whose login has returned.      *)

\* if 'products' in cart and cart['products']: the products the loop visits
products_to_clean(cart_json) ==
    IF HasKey(cart_json, "products") /\ cart_json.products # <<>>
    THEN cart_json.products
    ELSE <<>>

\* a slip: the field name of test_cart_persistence_across_requests
has_key_field(product) == HasKey(product, "key")

\* if 'cart_id' in product
has_cart_id(product) == HasKey(product, "cart_id")

\* cart = api_client.get_cart(), at `at`; the loop follows at `then`, and a raise
\* ends the fixture
CleanGet(at, then, faulty) ==
    /\ pc.at = at
    /\ Perform("get_cart", <<>>, Faults(faulty, TRUE))
    /\ IF last'.call.outcome = "raised"
       THEN pc' = Idle /\ todo' = <<>>
       ELSE /\ pc' = [at |-> then, outcome |-> pc.outcome]
            /\ todo' = products_to_clean(last'.call.value)

\* one round of the for-loop
CleanRemove(at, faulty) ==
    /\ pc.at = at
    /\ todo # <<>>
    /\ IF has_cart_id(Head(todo))
       THEN /\ Perform("remove_from_cart", <<Head(todo).cart_id>>, Faults(faulty, FALSE))
            /\ IF last'.call.outcome = "raised"
               THEN pc' = Idle /\ todo' = <<>>
               ELSE pc' = pc /\ todo' = Tail(todo)
       ELSE /\ todo' = Tail(todo)
            /\ UNCHANGED <<api_token, cookies, cart, next_id, last, logged_in, pc, since_empty>>

\* the loop is over
CleanDone(at, then) ==
    /\ pc.at = at
    /\ todo = <<>>
    /\ pc' = [at |-> then, outcome |-> pc.outcome]
    /\ UNCHANGED <<api_token, cookies, cart, next_id, last, logged_in, todo, since_empty>>

SetupGet(faulty) ==
    /\ logged_in
    /\ CleanGet("idle", "setup", faulty)

SetupRemove(faulty) ==
    /\ pc.outcome = "none"
    /\ CleanRemove("setup", faulty)

\* yield api_client
Yield ==
    /\ pc.outcome = "none"
    /\ CleanDone("setup", "yielded")

\* the test that got the client ends, passed or failed
TestEnds ==
    /\ pc.at \in {"yielded", "test"}
    /\ \E outcome \in {"passed", "failed"} : pc' = [at |-> "ended", outcome |-> outcome]
    /\ UNCHANGED <<api_token, cookies, cart, next_id, last, logged_in, todo, since_empty>>

TeardownGet(faulty) ==
    /\ pc.outcome # "none"
    /\ CleanGet("ended", "teardown", faulty)

TeardownRemove(faulty) ==
    /\ pc.outcome # "none"
    /\ CleanRemove("teardown", faulty)

TeardownDone ==
    /\ pc.outcome # "none"
    /\ CleanDone("teardown", "finished")

\* the runner goes on to the next test
NextTest ==
    /\ pc.at = "finished"
    /\ pc' = Idle
    /\ UNCHANGED <<api_token, cookies, cart, next_id, last, logged_in, todo, since_empty>>

-----------------------------------------------------------------------------
(* test_cart_persistence_across_requests.  It takes api_client, not        *)
(* clean_cart, and cleans the cart itself; pc.at tells the statement it is *)
(* at, todo holds the products its loop has still to visit and then the    *)
(* products of cart1.  A call that raises, or an assert that fails, ends   *)
(* the test as failed.                                                     *)

\* cart.get('products', [])
get_products(cart_json) == IF HasKey(cart_json, "products") THEN cart_json.products ELSE <<>>

\* if 'key' in product
has_key(product) == HasKey(product, "key")

At(at) == [at |-> at, outcome |-> "none"]
Ended(outcome) == [at |-> "finished", outcome |-> outcome]

\* cart = api_client.get_cart(), and the for-loop over its products begins
PersistenceClean ==
    /\ pc = Idle
    /\ logged_in
    /\ Perform("get_cart", <<>>, {})
    /\ IF last'.call.outcome = "raised"
       THEN pc' = Ended("failed") /\ todo' = <<>>
       ELSE pc' = At("cleaning") /\ todo' = get_products(last'.call.value)

\* one round of the for-loop: api_client.remove_from_cart(product['key'])
\* if the product has a key
PersistenceRemove ==
    /\ pc.at = "cleaning"
    /\ todo # <<>>
    /\ IF has_key(Head(todo))
       THEN /\ Perform("remove_from_cart", <<Head(todo).key>>, {})
            /\ IF last'.call.outcome = "raised"
               THEN pc' = Ended("failed") /\ todo' = <<>>
               ELSE pc' = pc /\ todo' = Tail(todo)
       ELSE /\ todo' = Tail(todo)
            /\ UNCHANGED <<api_token, cookies, cart, next_id, last, logged_in, pc, since_empty>>

\* api_client.add_to_cart(product_id=43, quantity=1), the loop being over
PersistenceAdd ==
    /\ pc.at = "cleaning"
    /\ todo = <<>>
    /\ Perform("add_to_cart", <<MacBook, 1>>, {})
    /\ pc' = IF last'.call.outcome = "raised" THEN Ended("failed") ELSE At("added")
    /\ UNCHANGED todo

\* cart1 = api_client.get_cart()
PersistenceGet1 ==
    /\ pc.at = "added"
    /\ Perform("get_cart", <<>>, {})
    /\ IF last'.call.outcome = "raised"
       THEN pc' = Ended("failed") /\ todo' = <<>>
       ELSE pc' = At("got1") /\ todo' = last'.call.value.products

\* assert len(cart1['products']) == 1
PersistenceAssert1 ==
    /\ pc.at = "got1"
    /\ pc' = IF Len(todo) = 1 THEN At("asserted1") ELSE Ended("failed")
    /\ UNCHANGED <<api_token, cookies, cart, next_id, last, logged_in, todo, since_empty>>

\* cart2 = api_client.get_cart()
PersistenceGet2 ==
    /\ pc.at = "asserted1"
    /\ Perform("get_cart", <<>>, {})
    /\ pc' = IF last'.call.outcome = "raised" THEN Ended("failed") ELSE At("got2")
    /\ UNCHANGED todo

\* assert len(cart2['products']) == 1, and the cleanup:
\* api_client.remove_from_cart(cart1['products'][0]['cart_id'])
PersistenceCleanup ==
    /\ pc.at = "got2"
    /\ IF Len(last.call.value.products) = 1
       THEN /\ Perform("remove_from_cart", <<todo[1].cart_id>>, {})
            /\ pc' = Ended(IF last'.call.outcome = "raised" THEN "failed" ELSE "passed")
       ELSE /\ pc' = Ended("failed")
            /\ UNCHANGED <<api_token, cookies, cart, next_id, last, logged_in, since_empty>>
    /\ todo' = <<>>

\* the client logs in and puts products into the cart, this test runs, and
\* so it goes on
NextPersistence ==
    /\ \/ Login(FALSE)
       \/ AddToCart(FALSE)
       \/ PersistenceClean
       \/ PersistenceRemove
       \/ PersistenceAdd
       \/ PersistenceGet1
       \/ PersistenceAssert1
       \/ PersistenceGet2
       \/ PersistenceCleanup
       \/ NextTest
    /\ UNCHANGED <<ui_vars, client_host>>

Next(faulty) ==
    \/ Login(faulty)
    \/ Get(faulty)
    \/ Post(faulty)
    \/ Delete(faulty)
    \/ GetCart(faulty)
    \/ AddToCart(faulty)
    \/ RemoveFromCart(faulty)
    \/ SetCustomer(faulty)
    \/ GetOrder(faulty)
    \/ AssertSuccess
    \/ SetupGet(faulty)
    \/ SetupRemove(faulty)
    \/ Yield
    \/ TestEnds
    \/ TeardownGet(faulty)
    \/ TeardownRemove(faulty)
    \/ TeardownDone
    \/ NextTest

-----------------------------------------------------------------------------
(* The configuration record, config/config.yaml as ConfigReader loads it:  *)
(* the sections the browser side reads.  An optional entry is a set, empty *)
(* when the key is absent and else holding its value.                      *)

BaseUrl == "http://store"
LoginRoute == "/index.php?route=account/login"

Config(section, default) ==
    [application |-> [base_url |-> BaseUrl],
     timeouts |-> [section |-> section, default |-> default]]

\* no timeouts section, a section without default, a section with a default
\* of 5 or of 10 seconds
Configs ==
    {Config(FALSE, {}), Config(TRUE, {})} \cup {Config(TRUE, {n}) : n \in {5, 10}}

\* config.get('timeouts', {}).get('default', fallback)
timeouts_default(config, fallback) ==
    IF config.timeouts.section /\ config.timeouts.default # {}
    THEN CHOOSE n \in config.timeouts.default : TRUE
    ELSE fallback

-----------------------------------------------------------------------------
(* The page object.  A call ends as a record: returned or raised, and with *)
(* what.                                                                   *)

UiRaised(exc) == [outcome |-> "raised", exc |-> exc, value |-> "none"]
UiReturned(value) == [outcome |-> "returned", exc |-> "", value |-> value]

\* a Page: default_timeout is what set_default_timeout last gave it, in ms
NoPage ==
    [id |-> 0, state |-> "none", dialogs |-> {}, url |-> "about:blank",
     default_timeout |-> {}, field |-> ""]

NoBasePage ==
    [bound |-> FALSE, page |-> 0, config |-> Config(FALSE, {}), base_url |-> "",
     timeout |-> 0]

\* BasePage.__init__(self, page, config), called with the positional
\* arguments args: Python binds them to the two parameters or raises TypeError
BasePage(args) ==
    IF Len(args) # 2
    THEN [call |-> UiRaised("TypeError"), self |-> NoBasePage, set_default_timeout |-> {}]
    ELSE LET pg == args[1]
             config == args[2]
             default_timeout == timeouts_default(config, DefaultSeconds)
             timeout == default_timeout * MsPerSecond
         IN  [call |-> UiReturned("object"),
              self |-> [bound |-> TRUE, page |-> pg.id, config |-> config,
                        base_url |-> config.application.base_url,
                        timeout |-> timeout],
              set_default_timeout |-> {timeout}]

\* BasePage.navigate(path): the URL page.goto is given
navigate(self, path) == self.base_url \o path

-----------------------------------------------------------------------------
(* The fixtures and hooks of the browser tests.                            *)

\* browser_context (session scope): browser.new_context() at its first use,
\* the same context for every later test of the session
browser_context(ctx) ==
    IF ctx.state = "none" THEN [state |-> "open", items |-> {}] ELSE ctx

\* page, before its yield: browser_context.new_page()
page_setup(id) ==
    [id |-> id, state |-> "open", dialogs |-> {}, url |-> "about:blank",
     default_timeout |-> {}, field |-> ""]

\* page, after its yield, left out
page_teardown_none(pg) == pg

\* page, after its yield: page.close()
page_teardown(pg) == [pg EXCEPT !.state = "closed", !.dialogs = {}]

\* what a page-object fixture makes of the constructor's result and the URL
\* it navigates to
page_object(made, pg, path) ==
    IF made.call.outcome = "raised"
    THEN [call |-> made.call, self |-> NoBasePage, page |-> pg]
    ELSE [call |-> UiReturned("object"), self |-> made.self,
          page |-> [pg EXCEPT !.default_timeout = made.set_default_timeout,
                              !.url = navigate(made.self, path)]]

\* home_page: HomePage(page), then home.navigate(base_url); HomePage has the
\* constructor of BasePage
home_page(pg, url) == page_object(BasePage(<<pg>>), pg, url)

\* login_page: LoginPage(page), then login.navigate(base_url + login route);
\* LoginPage has the constructor of BasePage
login_page(pg, url) == page_object(BasePage(<<pg>>), pg, url \o LoginRoute)

\* driver, the marker being absent or naming a browser: "browser_marker.args[0] if browser_marker else 'chrome'"
browser_name(marker) == IF marker # {} THEN CHOOSE b \in marker : TRUE ELSE "chrome"

\* driver, its options with every browser name taken as it comes
driver_options_any(name) == {name}

\* driver: the options it builds, or none when it raises ValueError
driver_options(name) ==
    IF name = "chrome" THEN {"chrome"}
    ELSE IF name = "firefox" THEN {"firefox"}
    ELSE {}

NoDriver == [id |-> 0, state |-> "none", browser |-> "", items |-> {}, implicit_wait |-> {}]

\* driver, before its yield: requested is the number of sessions it asks the
\* grid for, driver the one it got, handed whether it reached its yield.
\* remote is what the grid and the new session do to its calls: "session",
\* a session that works; "refused", webdriver.Remote raises; "broken", the
\* first command of the session (maximize_window, implicitly_wait) raises
driver_setup(id, marker, config, remote) ==
    LET options == driver_options(browser_name(marker))
        session == [id |-> id, state |-> "open", browser |-> browser_name(marker),
                    items |-> {}, implicit_wait |-> {}]
    IN  IF options = {}
        THEN [call |-> UiRaised("ValueError"), requested |-> 0, driver |-> NoDriver,
              handed |-> FALSE]
        ELSE IF remote = "refused"
        THEN [call |-> UiRaised("WebDriverException"), requested |-> 1, driver |-> NoDriver,
              handed |-> FALSE]
        ELSE IF remote = "broken"
        THEN [call |-> UiRaised("WebDriverException"), requested |-> 1, driver |-> session,
              handed |-> FALSE]
        ELSE [call |-> UiReturned("driver"), requested |-> 1,
              driver |-> [session EXCEPT !.implicit_wait =
                             {timeouts_default(config, ImplicitWaitSeconds)}],
              handed |-> TRUE]

\* driver, after its yield: driver.quit()
driver_teardown(d) == [d EXCEPT !.state = "quit", !.items = {}]

\* tests/frontend/pw/conftest.py, pytest_runtest_makereport, going for the
\* screenshot at the report of the teardown phase
takes_screenshot_at_teardown(when, failed, funcargs_page) ==
    when = "teardown" /\ funcargs_page

\* tests/frontend/pw/conftest.py, pytest_runtest_makereport: does it go for
\* the screenshot
takes_screenshot(when, failed, funcargs_page) ==
    when = "call" /\ failed /\ funcargs_page

\* the same hook with page.screenshot outside a try
screenshot_unguarded(result) ==
    [shot |-> IF result = "raises" THEN "failed" ELSE "saved", raised |-> result = "raises"]

\* the same hook: try page.screenshot(path, full_page=True), log either way
screenshot(result) ==
    [shot |-> IF result = "raises" THEN "failed" ELSE "saved", raised |-> FALSE]

\* conftest.py, pytest_runtest_makereport: does it analyse
analyses(when, failed, analyzer) == when = "call" /\ failed /\ analyzer

\* AIFailureAnalyzer.analyze_failure: the record it returns.  ollama is what
\* the request to the model does: "answers", or "fails" (no connection, a
\* timeout, an HTTP error status, a body that is no JSON)
analyze_failure(ollama) ==
    [status |-> IF ollama = "fails" THEN "error" ELSE "success", raised |-> FALSE]

\* the same hook: try analyze_failure and attach, print on any exception.
\* result is what the analysis meets: "answers" and "fails" as above, or
\* "raises", a statement of the hook's own raising inside the try.  ai is
\* the status of the record attached, or "failed"
ai_analysis(result) ==
    [ai |-> IF result = "raises" THEN "failed" ELSE analyze_failure(result).status,
     raised |-> FALSE]

\* os.getenv(name, default): env is the variable, empty when it is unset
getenv(env, default) == IF env = {} THEN default ELSE CHOOSE v \in env : TRUE

\* str.lower, a string being the sequence of its characters
lower(s) ==
    [i \in DOMAIN s |->
        CASE s[i] = "T" -> "t" [] s[i] = "R" -> "r" [] s[i] = "U" -> "u"
          [] s[i] = "E" -> "e" [] s[i] = "F" -> "f" [] s[i] = "A" -> "a"
          [] s[i] = "L" -> "l" [] s[i] = "S" -> "s" [] OTHER -> s[i]]

\* pytest_configure comparing the variable as it is
ai_enabled_exact(env) == getenv(env, <<"t", "r", "u", "e">>) = <<"t", "r", "u", "e">>

\* pytest_configure: os.getenv("ENABLE_AI_ANALYSIS", "true").lower() == "true"
ai_enabled(env) == lower(getenv(env, <<"t", "r", "u", "e">>)) = <<"t", "r", "u", "e">>

-----------------------------------------------------------------------------
(* The test runner over the browser tests.  One test at a time: the        *)
(* fixtures of the test are set up, the setup is reported, the body is     *)
(* called and reported, the fixtures that were set up are torn down in the *)
(* reverse order, the teardown is reported.  pytest_runtest_makereport     *)
(* runs at each of the three reports.                                      *)

NoReports ==
    [setup |-> "none", call |-> "none", longrepr |-> "", reported |-> "none",
     shot |-> "none", shot_at |-> "none", ai |-> "none"]

InitUI ==
    /\ runner = [phase |-> "unstarted", test |-> 0, backend |-> "none", fixture |-> "none",
                 marker |-> {}, config |-> Config(FALSE, {}), env |-> {}, analyzer |-> FALSE,
                 handed |-> FALSE, rep |-> NoReports]
    /\ context = [state |-> "none", items |-> {}]
    /\ page = NoPage
    /\ grid = [requested |-> 0, live |-> 0]
    /\ driver = NoDriver
    /\ base_page = NoBasePage
    /\ ui_last = [op |-> "init", timeout |-> {}, handed |-> {}, effective |-> {},
                  first_holds |-> {}, query |-> UiReturned("none"),
                  steps |-> <<>>, does |-> <<>>, before |-> "",
                  call |-> UiReturned("none")]

\* the session starts: the configuration is loaded once, pytest_configure
\* makes the analyzer or not.  ENABLE_AI_ANALYSIS is unset, "true", "TRUE"
\* or "false"
SessionStarts ==
    /\ runner.phase = "unstarted"
    /\ \E config \in Configs,
          env \in {{}, {<<"t", "r", "u", "e">>}, {<<"T", "R", "U", "E">>},
                   {<<"f", "a", "l", "s", "e">>}} :
         runner' = [runner EXCEPT !.phase = "idle", !.config = config, !.env = env,
                                  !.analyzer = ai_enabled(env)]
    /\ UNCHANGED <<context, page, grid, driver, base_page, ui_last>>

\* the next test is a Playwright test asking for the fixture named
StartPwTest ==
    /\ runner.phase = "idle"
    /\ runner.test < MaxTests
    /\ \E fixture \in {"page", "home_page", "login_page"} :
         runner' = [runner EXCEPT !.phase = "setup", !.test = @ + 1, !.backend = "pw",
                                  !.fixture = fixture, !.marker = {}, !.handed = FALSE,
                                  !.rep = NoReports]
    /\ page' = NoPage
    /\ base_page' = NoBasePage
    /\ UNCHANGED <<context, grid, driver, ui_last>>

\* the next test is a Selenium test, with a browser marker or without
StartSelTest ==
    /\ runner.phase = "idle"
    /\ runner.test < MaxTests
    /\ \E marker \in {{}, {"chrome"}, {"firefox"}, {"edge"}} :
         runner' = [runner EXCEPT !.phase = "setup", !.test = @ + 1, !.backend = "sel",
                                  !.fixture = "driver", !.marker = marker, !.handed = FALSE,
                                  !.rep = NoReports]
    /\ driver' = NoDriver
    /\ UNCHANGED <<context, page, grid, base_page, ui_last>>

\* setup of page (and of browser_context, when the session has none yet)
PageFixture ==
    /\ runner.phase = "setup"
    /\ runner.backend = "pw"
    /\ context' = browser_context(context)
    /\ page' = page_setup(runner.test)
    /\ runner' = IF runner.fixture = "page"
                 THEN [runner EXCEPT !.phase = "report_setup", !.handed = TRUE,
                                     !.rep.setup = "passed"]
                 ELSE [runner EXCEPT !.phase = "setup_page_object"]
    /\ UNCHANGED <<grid, driver, base_page, ui_last>>

\* setup of home_page or login_page, over the page that was set up
PageObjectFixture ==
    /\ runner.phase = "setup_page_object"
    /\ LET url == runner.config.application.base_url
           made == IF runner.fixture = "home_page" THEN home_page(page, url)
                   ELSE login_page(page, url)
       IN  /\ base_page' = made.self
           /\ page' = made.page
           /\ runner' = IF made.call.outcome = "raised"
                        THEN [runner EXCEPT !.phase = "report_setup",
                                            !.rep.setup = "failed",
                                            !.rep.longrepr = made.call.exc]
                        ELSE [runner EXCEPT !.phase = "report_setup", !.handed = TRUE,
                                            !.rep.setup = "passed"]
    /\ UNCHANGED <<context, grid, driver, ui_last>>

\* setup of driver
DriverFixture ==
    /\ runner.phase = "setup"
    /\ runner.backend = "sel"
    /\ \E remote \in {"session", "refused", "broken"} :
         LET made == driver_setup(runner.test, runner.marker, runner.config, remote)
         IN  /\ driver' = made.driver
             /\ grid' = [requested |-> grid.requested + made.requested,
                         live |-> grid.live + (IF made.driver.state = "open" THEN 1 ELSE 0)]
             /\ runner' = IF made.handed
                          THEN [runner EXCEPT !.phase = "report_setup", !.handed = TRUE,
                                              !.rep.setup = "passed"]
                          ELSE [runner EXCEPT !.phase = "report_setup",
                                              !.rep.setup = "failed",
                                              !.rep.longrepr = made.call.exc]
    /\ UNCHANGED <<context, page, base_page, ui_last>>

\* pytest_runtest_makereport at the report of a phase: the hook of the
\* Playwright tests, then the hook of the root
MakeReport ==
    /\ runner.phase \in {"report_setup", "report_call", "report_teardown"}
    /\ \E shot_result \in {"works", "raises"}, ai_result \in {"answers", "fails", "raises"} :
         LET When == IF runner.phase = "report_setup" THEN "setup"
                     ELSE IF runner.phase = "report_call" THEN "call"
                     ELSE "teardown"
             failed == \/ When = "setup" /\ runner.rep.setup = "failed"
                       \/ When = "call" /\ runner.rep.call = "failed"
             shoots == /\ runner.backend = "pw"
                       /\ takes_screenshot(When, failed, page.state # "none")
             shot == screenshot(shot_result)
             analysed == analyses(When, failed, runner.analyzer)
             ai == ai_analysis(ai_result)
             raised == (shoots /\ shot.raised) \/ (analysed /\ ai.raised)
             then == IF When = "setup"
                     THEN (IF runner.rep.setup = "passed" THEN "call" ELSE "teardown")
                     ELSE IF When = "call" THEN "teardown"
                     ELSE "idle"
         IN  runner' = [runner EXCEPT
                 !.phase = then,
                 !.rep.shot = IF shoots THEN shot.shot ELSE @,
                 !.rep.shot_at = IF shoots THEN page.state ELSE @,
                 !.rep.ai = IF analysed THEN ai.ai ELSE @,
                 !.rep.reported = IF raised THEN "internal_error"
                                  ELSE IF When = "call" THEN runner.rep.call
                                  ELSE @]
    /\ UNCHANGED <<context, page, grid, driver, base_page, ui_last>>

\* the body of the test leaves something in the browser: a cookie or a
\* local storage entry of the store's origin, an open dialog
TestActs ==
    /\ runner.phase = "call"
    /\ \E kind \in {"cookie", "storage", "dialog"} :
         LET item == [kind |-> kind, test |-> runner.test]
         IN  IF runner.backend = "sel"
             THEN /\ driver' = [driver EXCEPT !.items = @ \cup {item}]
                  /\ UNCHANGED <<context, page>>
             ELSE IF kind = "dialog"
             THEN /\ page' = [page EXCEPT !.dialogs = @ \cup {item}]
                  /\ UNCHANGED <<context, driver>>
             ELSE /\ context' = [context EXCEPT !.items = @ \cup {item}]
                  /\ UNCHANGED <<page, driver>>
    /\ UNCHANGED <<runner, grid, base_page, ui_last>>

\* the body returns
TestPasses ==
    /\ runner.phase = "call"
    /\ runner' = [runner EXCEPT !.phase = "report_call", !.rep.call = "passed"]
    /\ UNCHANGED <<context, page, grid, driver, base_page, ui_last>>

\* the body raises
TestFails ==
    /\ runner.phase = "call"
    /\ \E exc \in {"AssertionError", "TimeoutError"} :
         runner' = [runner EXCEPT !.phase = "report_call", !.rep.call = "failed",
                                  !.rep.longrepr = exc]
    /\ UNCHANGED <<context, page, grid, driver, base_page, ui_last>>

\* teardown of a Playwright test: page resumes after its yield
PageTeardown ==
    /\ runner.phase = "teardown"
    /\ runner.backend = "pw"
    /\ page' = IF page.state = "open" THEN page_teardown(page) ELSE page
    /\ runner' = [runner EXCEPT !.phase = "report_teardown"]
    /\ UNCHANGED <<context, grid, driver, base_page, ui_last>>

\* teardown of a Selenium test: driver resumes after its yield, if it got there
DriverTeardown ==
    /\ runner.phase = "teardown"
    /\ runner.backend = "sel"
    /\ IF runner.handed
       THEN /\ driver' = driver_teardown(driver)
            /\ grid' = [grid EXCEPT !.live = @ - 1]
       ELSE UNCHANGED <<driver, grid>>
    /\ runner' = [runner EXCEPT !.phase = "report_teardown"]
    /\ UNCHANGED <<context, page, base_page, ui_last>>

\* the session ends: browser_context resumes after its yield, context.close()
SessionEnds ==
    /\ runner.phase = "idle"
    /\ runner' = [runner EXCEPT !.phase = "ended"]
    /\ context' = IF context.state = "open" THEN [state |-> "closed", items |-> {}]
                  ELSE context
    /\ UNCHANGED <<page, grid, driver, base_page, ui_last>>

NextRunner ==
    /\ \/ SessionStarts
       \/ StartPwTest
       \/ StartSelTest
       \/ PageFixture
       \/ PageObjectFixture
       \/ DriverFixture
       \/ MakeReport
       \/ TestActs
       \/ TestPasses
       \/ TestFails
       \/ PageTeardown
       \/ DriverTeardown
       \/ SessionEnds
    /\ UNCHANGED api_vars

-----------------------------------------------------------------------------
(* The verbs of BasePage.  A verb hands the driver, or the assertion       *)
(* library, a timeout or none; the timeout that then governs the wait is   *)
(* the one handed over or else the default of the side that waits.  What   *)
(* the page does is an input: first_holds is the time in ms, from the      *)
(* call, at which the awaited condition first holds (empty: never), and    *)
(* for a state query the way the driver's own call ends.                   *)

FirstHolds == {{}, {0}, {3000}}

\* the timeout argument of a verb that has one: left out, 0, a value in ms
TimeoutArgs == {{}, {0}, {1000}}

\* how the driver's own call of a state query ends
DriverQueries ==
    {UiReturned(TRUE), UiReturned(FALSE), UiRaised("TimeoutError"), UiRaised("Error")}

NoQuery == UiReturned("none")

\* "if timeout:" on an Optional[int]
given(timeout) == timeout # {} /\ timeout # {0}

\* the timeout of a Page call: the one handed to it, else the page's default
page_timeout(pg, handed) == IF handed # {} THEN handed ELSE pg.default_timeout

\* the timeout of an expect(...) assertion: the one handed to it, else its own
expect_timeout(handed) == IF handed # {} THEN handed ELSE {ExpectTimeout}

\* the awaited condition comes to hold within the timeout
met(first_holds, timeouts) == \E t \in first_holds, limit \in timeouts : t <= limit

\* steps, does and before belong to the verbs that are a sequence of driver
\* calls: the calls made, what the page did at each, the field's value before
UiCall(op, timeout, handed, effective, first_holds, query, call) ==
    [op |-> op, timeout |-> timeout, handed |-> handed, effective |-> effective,
     first_holds |-> first_holds, query |-> query, steps |-> <<>>, does |-> <<>>,
     before |-> "", call |-> call]

\* a wait of the driver or of the assertion library, and how it ends
waits(op, timeout, handed, effective, first_holds, exc) ==
    UiCall(op, timeout, handed, effective, first_holds, NoQuery,
           IF met(first_holds, effective) THEN UiReturned("none") ELSE UiRaised(exc))

\* one call of the driver: the Page method, the locator (the URL for goto)
\* and the text it is given
Step(call, locator, text) == [call |-> call, locator |-> locator, text |-> text]

\* what the page does at one call of the driver: the time in ms at which the
\* call can complete (empty: never), or the driver fails outright
DriverDoes ==
    {[first_holds |-> h, error |-> FALSE] : h \in FirstHolds}
        \cup {[first_holds |-> {}, error |-> TRUE]}

\* a Page call under the page's default timeout: how it ends and the page
\* after it.  goto sets the URL; fill sets the value of the input, replacing
\* what it held; type sends the text as key presses after what it held.
\* FIELD is the one input whose value the model keeps.
page_call(pg, step, does) ==
    IF does.error THEN [call |-> UiRaised("Error"), page |-> pg]
    ELSE IF ~met(does.first_holds, page_timeout(pg, {}))
    THEN [call |-> UiRaised("TimeoutError"), page |-> pg]
    ELSE [call |-> UiReturned("none"),
          page |-> IF step.call = "goto" THEN [pg EXCEPT !.url = step.locator]
                   ELSE IF step.call = "fill" /\ step.locator = "FIELD"
                   THEN [pg EXCEPT !.field = step.text]
                   ELSE IF step.call = "type" /\ step.locator = "FIELD"
                   THEN [pg EXCEPT !.field = @ \o step.text]
                   ELSE pg]

RECURSIVE run(_, _, _, _)

\* a method body that goes on after a statement raised and reports a
\* failure of its own
run_swallowing(pg, steps, does, done) ==
    [executed |-> steps, page |-> pg,
     call |-> IF \E i \in DOMAIN steps : page_call(pg, steps[i], does[i]).call.outcome = "raised"
              THEN UiRaised("ActionFailed")
              ELSE UiReturned("none")]

\* the statements of a method body, each one driver call, run in the order
\* written: the first that raises ends the method with what it raised
run(pg, steps, does, done) ==
    IF steps = <<>> THEN [executed |-> done, page |-> pg, call |-> UiReturned("none")]
    ELSE LET made == page_call(pg, Head(steps), Head(does))
         IN  IF made.call.outcome = "raised"
             THEN [executed |-> Append(done, Head(steps)), page |-> made.page,
                   call |-> made.call]
             ELSE run(made.page, Tail(steps), Tail(does), Append(done, Head(steps)))

\* wait_for_load: page.wait_for_load_state('networkidle')
wait_for_load == <<Step("wait_for_load_state", "", "")>>

\* navigate: page.goto(url), page.wait_for_load_state('networkidle')
goto(url) == <<Step("goto", url, ""), Step("wait_for_load_state", "", "")>>

\* reload that returns once page.reload() has
reload_unsettled == <<Step("reload", "", "")>>

\* reload: page.reload(), wait_for_load()
reload == <<Step("reload", "", "")>> \o wait_for_load

\* go_back: page.go_back(), wait_for_load()
go_back == <<Step("go_back", "", "")>> \o wait_for_load

\* go_forward: page.go_forward(), wait_for_load()
go_forward == <<Step("go_forward", "", "")>> \o wait_for_load

\* click: page.click(locator)
click(locator) == <<Step("click", locator, "")>>

\* fill that types into the input
fill_typing(locator, text) == <<Step("type", locator, text)>>

\* fill: page.fill(locator, text)
fill(locator, text) == <<Step("fill", locator, text)>>

\* clear_and_fill: page.fill(locator, ""), page.fill(locator, text)
clear_and_fill(locator, text) == <<Step("fill", locator, ""), Step("fill", locator, text)>>

\* HomePage.click_login
click_login == click("MY_ACCOUNT_DROPDOWN") \o click("LOGIN_LINK") \o wait_for_load

\* HomePage.click_register
click_register == click("MY_ACCOUNT_DROPDOWN") \o click("REGISTER_LINK") \o wait_for_load

\* HomePage.search_product
search_product(product_name) ==
    fill("SEARCH_INPUT", product_name) \o click("SEARCH_BUTTON") \o wait_for_load

\* LoginPage.login
LoginPage_login(email, password) ==
    fill("EMAIL_INPUT", email) \o fill("PASSWORD_INPUT", password)
        \o click("LOGIN_BUTTON") \o wait_for_load

\* BasePage.screenshot: page.screenshot(path=path), return path
BasePage_screenshot(filename) == <<Step("screenshot", "", "screenshots/" \o filename)>>

\* BasePage.screenshot_element: page.locator(locator).screenshot(path=path),
\* return path
screenshot_element(locator, filename) ==
    <<Step("screenshot", locator, "screenshots/" \o filename)>>

\* click, double_click, fill, clear_and_fill, press_key, hover, select_option,
\* check, uncheck: the Page call of the same kind, no timeout handed over
Interactions ==
    {"click", "double_click", "fill", "clear_and_fill", "press_key", "hover",
     "select_option", "check", "uncheck"}

interact(op, pg, first_holds) ==
    waits(op, {}, {}, page_timeout(pg, {}), first_holds, "TimeoutError")

wait_for_selector(pg, timeout, first_holds) ==
    LET handed == IF given(timeout) THEN timeout ELSE {}
    IN  waits("wait_for_selector", timeout, handed, page_timeout(pg, handed), first_holds,
              "TimeoutError")

wait_for_url(pg, timeout, first_holds) ==
    LET handed == IF given(timeout) THEN timeout ELSE {}
    IN  waits("wait_for_url", timeout, handed, page_timeout(pg, handed), first_holds,
              "TimeoutError")

\* expect_visible, expect_hidden: expect(locator).to_be_...(timeout=timeout) or
\* expect(locator).to_be_...()
TimedExpects == {"expect_visible", "expect_hidden"}

expect_timed(op, timeout, first_holds) ==
    LET handed == IF given(timeout) THEN timeout ELSE {}
    IN  waits(op, timeout, handed, expect_timeout(handed), first_holds, "AssertionError")

\* expect_text, expect_value, expect_url, expect_title, expect_enabled,
\* expect_disabled, expect_checked, expect_count: expect(...).to_...(expected)
PlainExpects ==
    {"expect_text", "expect_value", "expect_url", "expect_title", "expect_enabled",
     "expect_disabled", "expect_checked", "expect_count"}

expect_plain(op, first_holds) ==
    waits(op, {}, {}, expect_timeout({}), first_holds, "AssertionError")

\* expect_url_contains, expect_title_contains: read page.url / page.title()
\* once and assert the substring is in it
ContainsExpects == {"expect_url_contains", "expect_title_contains"}

expect_contains(op, first_holds) ==
    UiCall(op, {}, {}, {}, first_holds, NoQuery,
           IF first_holds = {0} THEN UiReturned("none") ELSE UiRaised("AssertionError"))

ExpectOps == TimedExpects \cup PlainExpects \cup ContainsExpects

\* is_checked without its try
is_checked_unguarded(query) ==
    UiCall("is_checked", {}, {}, {}, {}, query, query)

\* is_visible(locator, timeout=5000): try page.is_visible(locator, timeout),
\* False on any exception
is_visible(timeout, query) ==
    LET handed == IF timeout # {} THEN timeout ELSE {IsVisibleTimeout}
    IN  UiCall("is_visible", timeout, handed, handed, {}, query,
               IF query.outcome = "raised" THEN UiReturned(FALSE) ELSE query)

\* is_enabled: try page.is_enabled(locator), False on any exception
is_enabled(query) ==
    UiCall("is_enabled", {}, {}, {}, {}, query,
           IF query.outcome = "raised" THEN UiReturned(FALSE) ELSE query)

\* is_checked: try page.is_checked(locator), False on any exception
is_checked(query) ==
    UiCall("is_checked", {}, {}, {}, {}, query,
           IF query.outcome = "raised" THEN UiReturned(FALSE) ELSE query)

-----------------------------------------------------------------------------
(* A page and a page object made for it, and the verbs called on it.       *)

\* a page is opened, as the page fixture opens one
OpenPage ==
    /\ page.state = "none"
    /\ page' = page_setup(1)
    /\ UNCHANGED <<runner, context, grid, driver, base_page, ui_last>>

\* BasePage(page, config)
Construct ==
    /\ page.state = "open"
    /\ ~base_page.bound
    /\ \E config \in Configs :
         LET made == BasePage(<<page, config>>)
         IN  /\ base_page' = made.self
             /\ page' = [page EXCEPT !.default_timeout = made.set_default_timeout]
    /\ UNCHANGED <<runner, context, grid, driver, ui_last>>

\* a verb that is a sequence of driver calls is called: the calls are made
\* on the page, and the call ends as the run of them ends
Call(op, steps, does, value) ==
    LET ran == run(page, steps, does, <<>>)
    IN  /\ page' = ran.page
        /\ ui_last' = [UiCall(op, {}, {}, page_timeout(page, {}), {}, NoQuery,
                               IF ran.call.outcome = "raised" THEN ran.call
                               ELSE UiReturned(value))
                          EXCEPT !.steps = ran.executed, !.does = does,
                                 !.before = page.field]

\* the page does as it should at every call but the one at `at`
Does(n, at, does) ==
    [i \in 1..n |-> IF i = at THEN does ELSE [first_holds |-> {0}, error |-> FALSE]]

Navigate ==
    /\ base_page.bound
    /\ \E loads \in DriverDoes, settles \in DriverDoes :
         \/ \E path \in {"", LoginRoute} :
               Call("navigate", goto(navigate(base_page, path)), <<loads, settles>>, "none")
         \/ Call("reload", reload, <<loads, settles>>, "none")
         \/ Call("go_back", go_back, <<loads, settles>>, "none")
         \/ Call("go_forward", go_forward, <<loads, settles>>, "none")
    /\ UNCHANGED <<runner, context, grid, driver, base_page>>

Interact ==
    /\ base_page.bound
    /\ \E op \in Interactions \ {"fill", "clear_and_fill"}, first_holds \in FirstHolds :
         ui_last' = interact(op, page, first_holds)
    /\ UNCHANGED <<runner, context, page, grid, driver, base_page>>

\* fill or clear_and_fill on the input
Fill ==
    /\ base_page.bound
    /\ \E text \in {"", "a", "b"}, first \in DriverDoes, second \in DriverDoes :
         \/ first = second /\ Call("fill", fill("FIELD", text), <<first>>, "none")
         \/ Call("clear_and_fill", clear_and_fill("FIELD", text), <<first, second>>, "none")
    /\ UNCHANGED <<runner, context, grid, driver, base_page>>

\* an action of HomePage or LoginPage made of several verbs
Composite ==
    /\ base_page.bound
    /\ \E at \in 1..4, does \in DriverDoes :
         \/ at <= 3 /\ Call("click_login", click_login, Does(3, at, does), "none")
         \/ at <= 3 /\ Call("click_register", click_register, Does(3, at, does), "none")
         \/ at <= 3 /\ Call("search_product", search_product("a"), Does(3, at, does), "none")
         \/ Call("login", LoginPage_login("a", "b"), Does(4, at, does), "none")
    /\ UNCHANGED <<runner, context, grid, driver, base_page>>

\* screenshot or screenshot_element
Capture ==
    /\ base_page.bound
    /\ \E does \in DriverDoes :
         \/ Call("screenshot", BasePage_screenshot("f.png"), <<does>>, "screenshots/f.png")
         \/ Call("screenshot_element", screenshot_element("LOGO", "f.png"), <<does>>,
                 "screenshots/f.png")
    /\ UNCHANGED <<runner, context, grid, driver, base_page>>

WaitFor ==
    /\ base_page.bound
    /\ \E timeout \in TimeoutArgs, first_holds \in FirstHolds :
         \/ ui_last' = wait_for_selector(page, timeout, first_holds)
         \/ ui_last' = wait_for_url(page, timeout, first_holds)
    /\ UNCHANGED <<runner, context, page, grid, driver, base_page>>

Expect ==
    /\ base_page.bound
    /\ \E timeout \in TimeoutArgs, first_holds \in FirstHolds :
         \/ \E op \in TimedExpects : ui_last' = expect_timed(op, timeout, first_holds)
         \/ \E op \in PlainExpects : timeout = {} /\ ui_last' = expect_plain(op, first_holds)
         \/ \E op \in ContainsExpects :
               timeout = {} /\ ui_last' = expect_contains(op, first_holds)
    /\ UNCHANGED <<runner, context, page, grid, driver, base_page>>

StateQuery ==
    /\ base_page.bound
    /\ \E timeout \in TimeoutArgs, query \in DriverQueries :
         \/ ui_last' = is_visible(timeout, query)
         \/ timeout = {} /\ ui_last' = is_enabled(query)
         \/ timeout = {} /\ ui_last' = is_checked(query)
    /\ UNCHANGED <<runner, context, page, grid, driver, base_page>>

NextPage ==
    /\ \/ OpenPage
       \/ Construct
       \/ Navigate
       \/ Interact
       \/ Fill
       \/ Composite
       \/ Capture
       \/ WaitFor
       \/ Expect
       \/ StateQuery
    /\ UNCHANGED api_vars

-----------------------------------------------------------------------------
(* The specifications. *)

InitAll == Init /\ InitUI

NextFaulty == Next(TRUE) /\ UNCHANGED <<ui_vars, client_host>>
NextContract == Next(FALSE) /\ UNCHANGED <<ui_vars, client_host>>

\* the server's replies may be blank or not JSON
Spec == InitAll /\ [][NextFaulty]_vars

\* the server's replies are the ones its API surface prescribes
SpecContract == InitAll /\ [][NextContract]_vars

\* the same, for a client constructed with a base_url on the address the
\* cookie is set for or on the local host
InitHosts == InitClient({CookieDomain, "localhost"}) /\ InitUI

SpecHosts == InitHosts /\ [][NextContract]_vars

\* test_cart_persistence_across_requests over whatever the cart holds
SpecPersistence == InitAll /\ [][NextPersistence]_vars

\* the browser tests of one session
SpecUI == InitAll /\ [][NextRunner]_vars

\* the same, the runner never stopping while it has a step to take
SpecUIFair == SpecUI /\ WF_vars(NextRunner)

\* a page object and the calls of its verbs
SpecPage == InitAll /\ [][NextPage]_vars

-----------------------------------------------------------------------------
(* Properties. *)

\* the calls that need a session
AuthOps == {"get", "post", "delete", "get_cart", "add_to_cart", "remove_from_cart",
            "set_customer", "get_order"}

CartIds(c) == {c[i].cart_id : i \in DOMAIN c}

\* the get_cart that would follow now, answered with the body the server owes
NextGetCart ==
    get_cart(api_token,
             Reply(200, JsonBody(ServerStep(Request("GET", "api/sale/cart", NoData),
                                            cart, next_id).body)))

\* the last call was a login answered with a JSON object
LoginAnswered == last.op = "login" /\ last.reply.body.kind = "json"

\* C1: as long as login has never returned normally, every call of get, post,
\* delete, get_cart, add_to_cart, remove_from_cart, set_customer and get_order
\* raises the "not authenticated" failure and sends no HTTP request.
C1_NoCallBeforeLogin ==
    (~logged_in /\ last.op \in AuthOps)
        => /\ last.call.outcome = "raised"
           /\ last.call.exc = "AssertionError"
           /\ last.call.msg = "Not authenticated. Call login() first."
           /\ last.call.sent = <<>>

\* C2: a login answered with a body that has an `error` field raises "Login
\* failed", whatever the status code and whether or not the body has an
\* `api_token` too, and leaves api_token and the session cookie as they were.
C2_LoginErrorRaisesBeforeStore ==
    [][(LoginAnswered' /\ HasKey(last'.reply.body.json, "error"))
          => /\ last'.call.outcome = "raised"
             /\ last'.call.exc = "AssertionError"
             /\ last'.call.msg = "Login failed: "
             /\ last'.call.detail = last'.reply.body.json.error
             /\ api_token' = api_token
             /\ cookies' = cookies]_vars

\* C2, reached: an authenticated client logs in again, and the 200 OK answer has
\* both `error` and `api_token`
C2_Witness ==
    /\ LoginAnswered
    /\ last.reply.status = 200
    /\ HasKey(last.reply.body.json, "error")
    /\ HasKey(last.reply.body.json, "api_token")
    /\ last.call.outcome = "raised"
    /\ api_token = JInt("7")

\* C3: a login answered with a body that has neither `error` nor `api_token`
\* raises "No api_token in response" and leaves the client's authentication
\* state (token, cookie, and whether login has ever returned) as it was.
C3_LoginNoTokenRaises ==
    [][(/\ LoginAnswered'
        /\ ~HasKey(last'.reply.body.json, "error")
        /\ ~HasKey(last'.reply.body.json, "api_token"))
          => /\ last'.call.outcome = "raised"
             /\ last'.call.exc = "AssertionError"
             /\ last'.call.msg = "No api_token in response"
             /\ api_token' = api_token
             /\ cookies' = cookies
             /\ logged_in' = logged_in]_vars

\* C3, reached: an authenticated client gets such an answer and stays authenticated
C3_Witness ==
    /\ LoginAnswered
    /\ DOMAIN last.reply.body.json = {"success"}
    /\ last.call.outcome = "raised"
    /\ api_token = JStr("tokA")
    /\ logged_in

\* C4: only a login that returns normally changes api_token; no other call and
\* no login that raises clears or replaces the token of an authenticated client.
C4_TokenOnlyBySuccessfulLogin ==
    [][/\ api_token' # api_token
            => (last'.op = "login" /\ last'.call.outcome = "returned")
       /\ (Truthy(api_token) /\ ~(last'.op = "login" /\ last'.call.outcome = "returned"))
            => Truthy(api_token')]_vars

\* C5: a get_cart whose request was answered with an empty or whitespace-only
\* body returns products=[], totals=[], vouchers=[], shipping_required=False.
C5_BlankBodyIsEmptyCart ==
    (last.op = "get_cart" /\ last.call.sent # <<>> /\ IsBlank(last.reply.body))
        => /\ last.call.outcome = "returned"
           /\ last.call.value = EmptyCart
           /\ last.call.value.products = <<>>
           /\ last.call.value.totals = <<>>
           /\ last.call.value.vouchers = <<>>
           /\ last.call.value.shipping_required = FALSE

\* C5, reached: a whitespace-only body, while the server's cart holds a line item
C5_Witness ==
    /\ last.op = "get_cart"
    /\ last.call.sent # <<>>
    /\ last.reply.body.text = <<"\n", " ">>
    /\ last.call.outcome = "returned"
    /\ cart # <<>>

\* C6: a get_cart whose request was answered with a body that is not blank and
\* not JSON raises "Invalid JSON response" with the first 200 characters of the
\* body (all of it when it is shorter) and returns nothing.
C6_MalformedBodyRaisesExcerpt ==
    (/\ last.op = "get_cart"
     /\ last.call.sent # <<>>
     /\ last.reply.body.kind = "text"
     /\ ~IsBlank(last.reply.body))
        => LET text == last.reply.body.text
               excerpt == last.call.detail
           IN  /\ last.call.outcome = "raised"
               /\ last.call.exc = "AssertionError"
               /\ last.call.msg = "Invalid JSON response: "
               /\ Len(excerpt) <= ExcerptLen
               /\ Len(excerpt) = (IF Len(text) < ExcerptLen THEN Len(text) ELSE ExcerptLen)
               /\ \A i \in 1..Len(excerpt) : excerpt[i] = text[i]

\* C6, reached: a body longer than the excerpt
C6_Witness ==
    /\ last.op = "get_cart"
    /\ last.call.outcome = "raised"
    /\ last.reply.body.kind = "text"
    /\ Len(last.reply.body.text) > ExcerptLen
    /\ Len(last.call.detail) = ExcerptLen

\* C7: a remove_from_cart(id) that reaches the server removes the line item whose
\* cart_id is id and no other: every other line item stays, with its quantity,
\* and an id that is no line item's (a product id) removes nothing.  When the
\* cart held that line item alone, the get_cart that follows has no products.
C7_RemoveByLineItemId ==
    [][(last'.op = "remove_from_cart" /\ last'.call.sent # <<>>)
          => LET id == last'.args[1]
             IN  /\ cart' = SelectSeq(cart, LAMBDA line : line.cart_id # id)
                 /\ (id \in CartIds(cart)) => Len(cart') = Len(cart) - 1
                 /\ (id \in CartIds(cart) /\ Len(cart) = 1)
                        => /\ NextGetCart'.outcome = "returned"
                           /\ NextGetCart'.value.products = <<>>]_vars

\* C7, reached: of two line items the first was removed and the second is still there
C7_Witness ==
    /\ last.op = "remove_from_cart"
    /\ last.call.outcome = "returned"
    /\ last.args[1] = 1
    /\ CartIds(cart) = {2}

\* C8: after add_to_cart calls for k distinct products of the store, made from
\* an empty cart with nothing else touching the cart, get_cart returns exactly
\* k line items, one per product, each with the decimal text of the quantity
\* asked for.
C8_AddsShowInCart ==
    (last.op = "get_cart" /\ last.call.outcome = "returned" /\ since_empty.ok)
        => LET products == last.call.value.products
               adds == since_empty.adds
           IN  /\ Len(products) = Len(adds)
               /\ \A i \in DOMAIN adds :
                     Cardinality({j \in DOMAIN products :
                                    products[j].product_id = adds[i].product_id}) = 1
               /\ \A i \in DOMAIN adds : \A j \in DOMAIN products :
                     products[j].product_id = adds[i].product_id
                        => products[j].quantity = DecStr(adds[i].quantity)

\* C8, reached: MacBook and iPhone added, one of them with the largest quantity
C8_Witness ==
    /\ last.op = "get_cart"
    /\ last.call.outcome = "returned"
    /\ since_empty.ok
    /\ Len(since_empty.adds) = 2
    /\ Len(last.call.value.products) = 2
    /\ \E i \in DOMAIN since_empty.adds : since_empty.adds[i].quantity = MaxQty

\* C9: assert_success raises exactly when its argument has the key `error`,
\* whatever the value under it; otherwise it returns None.  It sends nothing
\* and leaves the client and the cart alone.
C9_AssertSuccessIffErrorKey ==
    [][last'.op = "assert_success"
          => /\ (last'.call.outcome = "raised") <=> HasKey(last'.args[1], "error")
             /\ last'.call.outcome \in {"raised", "returned"}
             /\ last'.call.outcome = "raised" =>
                    /\ last'.call.exc = "AssertionError"
                    /\ last'.call.detail = last'.args[1].error
             /\ last'.call.outcome = "returned" => last'.call.value = JNull
             /\ last'.call.sent = <<>>
             /\ UNCHANGED <<api_token, cookies, cart, next_id>>]_vars

\* C9, reached: an `error` that is null, beside a success message
C9_Witness ==
    /\ last.op = "assert_success"
    /\ HasKey(last.args[1], "error")
    /\ ~Truthy(last.args[1].error)
    /\ last.call.outcome = "raised"

\* C10: when clean_cart hands the client to the test, and again when its
\* teardown is over, whether the test passed or failed, a get_cart returns no
\* products, whatever earlier tests left in the cart.
C10_CleanCartEmpties ==
    pc.at \in {"yielded", "finished"}
        => /\ NextGetCart.outcome = "returned"
           /\ NextGetCart.value.products = <<>>

\* C10, reached: the test failed, and the teardown has removed what it left
C10_Witness ==
    /\ pc.at = "finished"
    /\ pc.outcome = "failed"
    /\ last.op = "remove_from_cart"
    /\ last.call.outcome = "returned"
    /\ next_id > 1

-----------------------------------------------------------------------------
(* Properties of the browser side. *)

\* what the body of the running test can observe in its browser
Observable ==
    IF runner.backend = "sel" THEN driver.items ELSE context.items \cup page.dialogs

\* the running test got its session: its page is open, or its driver is
Handed == runner.handed /\ runner.phase = "call"

\* the session of test n was torn down: page.close() or driver.quit() ran
TornDown(n) ==
    \/ page.id = n /\ page.state = "closed"
    \/ driver.id = n /\ driver.state = "quit"

\* the running test is a Selenium test whose marker names no supported browser
Unsupported ==
    /\ runner.backend = "sel"
    /\ runner.phase # "idle"
    /\ browser_name(runner.marker) \notin {"chrome", "firefox"}

\* C11: no state leaks between tests: whatever cookie, local storage entry
\* or open dialog the body of a test can observe was created by that test,
\* under Playwright as under Selenium.
C11_NoStateLeaksBetweenTests ==
    runner.phase = "call" => \A item \in Observable : item.test = runner.test

\* C12: once a test was handed its page or its driver, page.close() or
\* driver.quit() of that session is eventually executed, also when the
\* body of the test raises.
C12_TeardownAlwaysRuns ==
    \A n \in 1..MaxTests : (Handed /\ runner.test = n) ~> TornDown(n)

\* a test whose body raised, its page closed after it
C12_Witness ==
    /\ runner.backend = "pw"
    /\ runner.handed
    /\ runner.rep.call = "failed"
    /\ runner.rep.longrepr = "AssertionError"
    /\ TornDown(runner.test)

\* C13: when the body of a Playwright test failed, the hook has gone for a
\* screenshot of the test's page, and it did so while the page was open:
\* the attempt comes before page.close().
C13_ScreenshotBeforeTeardown ==
    (runner.backend = "pw" /\ runner.rep.call = "failed" /\ page.state = "closed")
        => (runner.rep.shot # "none" /\ runner.rep.shot_at = "open")

\* a failed test with its screenshot saved and its page closed
C13_Witness ==
    /\ runner.backend = "pw"
    /\ runner.rep.call = "failed"
    /\ runner.rep.shot = "saved"
    /\ page.state = "closed"

\* C14: whatever the screenshot and the analysis do at the report of the
\* call, nothing is raised out of the hooks: the outcome reported for the
\* test is the outcome of its body and its failure is the body's failure.
C14_DiagnosticFailureNeverMasks ==
    [][runner.phase = "report_call"
         => /\ runner'.rep.reported = runner.rep.call
            /\ runner'.rep.call = runner.rep.call
            /\ runner'.rep.longrepr = runner.rep.longrepr]_vars

\* a failed test reported as failed, its screenshot and its analysis both
\* having raised
C14_Witness ==
    /\ runner.rep.shot = "failed"
    /\ runner.rep.ai = "failed"
    /\ runner.rep.reported = "failed"
    /\ runner.rep.longrepr = "TimeoutError"

\* C15: for a test asking for home_page or login_page the fixture completes
\* its setup and delivers a page object bound to the test's page, holding
\* the configuration, the page being at the base URL (home_page) or at the
\* login route under it (login_page).
C15_PageObjectsInjected ==
    (/\ runner.fixture \in {"home_page", "login_page"}
     /\ runner.phase \in {"report_setup", "call", "report_call"})
        => /\ runner.rep.setup = "passed"
           /\ base_page.bound
           /\ base_page.page = page.id
           /\ base_page.config = runner.config
           /\ base_page.timeout = timeouts_default(runner.config, DefaultSeconds) * MsPerSecond
           /\ page.url = IF runner.fixture = "home_page" THEN BaseUrl
                         ELSE BaseUrl \o LoginRoute

\* C16: a browser name other than chrome and firefox makes the setup of
\* driver raise ValueError with no session asked of the grid, and the body
\* of that test never runs.
C16_UnsupportedBrowserRejectedEagerly ==
    [][/\ (Unsupported /\ runner.phase = "setup")
            => /\ grid' = grid
               /\ driver' = NoDriver
               /\ runner'.rep.setup = "failed"
               /\ runner'.rep.longrepr = "ValueError"
       /\ Unsupported' => (runner'.phase # "call" /\ runner'.rep.call = "none")]_vars

\* a test marked for edge, its setup failed, its teardown reported
C16_Witness ==
    /\ runner.marker = {"edge"}
    /\ runner.phase = "report_teardown"
    /\ runner.rep.longrepr = "ValueError"
    /\ grid.requested = 0

StateQueries == {"is_visible", "is_enabled", "is_checked"}

\* the verbs of BasePage that wait
WaitingOps ==
    {"navigate", "wait_for_selector", "wait_for_url", "is_visible"}
        \cup Interactions \cup ExpectOps

\* the configuration gives no timeouts.default
Unconfigured(config) == ~config.timeouts.section \/ config.timeouts.default = {}

\* C17: is_visible, is_enabled and is_checked never raise: when the driver's
\* call raises they return False, and else what the driver returned.
C17_StateQueriesNeverRaise ==
    ui_last.op \in StateQueries
        => /\ ui_last.call.outcome = "returned"
           /\ ui_last.call.value = (ui_last.query.outcome = "returned" /\ ui_last.query.value)

\* is_checked on a driver call that raised
C17_Witness ==
    /\ ui_last.op = "is_checked"
    /\ ui_last.query = UiRaised("TimeoutError")
    /\ ui_last.call = UiReturned(FALSE)

\* C18: every expect_* verb polls: it returns if its condition comes to
\* hold within the timeout (the one that governs the call, the page
\* object's for a verb that hands none on) and raises only if it does not.
C18_ExpectPollsUpToTimeout ==
    ui_last.op \in ExpectOps
        => LET timeouts == IF ui_last.effective # {} THEN ui_last.effective
                           ELSE {base_page.timeout}
           IN  (ui_last.call.outcome = "returned") <=> met(ui_last.first_holds, timeouts)

\* C19: with no timeouts.default in the configuration the default timeout
\* is ten seconds: BasePage takes 10000 ms and hands them to the page, the
\* driver fixture sets an implicit wait of 10 s.
C19_DefaultTimeoutTenSeconds ==
    /\ (base_page.bound /\ Unconfigured(base_page.config))
          => (base_page.timeout = 10000 /\ page.default_timeout = {10000})
    /\ (driver.state = "open" /\ Unconfigured(runner.config))
          => driver.implicit_wait = {10}

\* C20: a waiting verb of BasePage called without a timeout of its own
\* waits for the configured default: timeouts.default seconds, in ms as the
\* constructor converted them.
C20_OneTimeoutPolicy ==
    (ui_last.op \in WaitingOps /\ ui_last.timeout = {})
        => ui_last.effective =
               {timeouts_default(base_page.config, DefaultSeconds) * MsPerSecond}

\* the verbs of BasePage that take a timeout of their own and hand it on
OverridableOps == {"wait_for_selector", "wait_for_url", "expect_visible", "expect_hidden"}

\* C21: for wait_for_selector, wait_for_url, expect_visible and
\* expect_hidden an explicit timeout shorter than the configured default
\* is the timeout handed to the driver call and the one that governs it.
C21_ExplicitTimeoutOverrides ==
    (/\ ui_last.op \in OverridableOps
     /\ \E t \in ui_last.timeout : t < base_page.timeout)
        => (ui_last.handed = ui_last.timeout /\ ui_last.effective = ui_last.timeout)

\* the driver call fails where the page did `does`: the driver raises, or
\* the call cannot complete within the page object's timeout
Fails(does) == does.error \/ ~met(does.first_holds, {base_page.timeout})

\* what the failing driver call raises
Raises(does) == UiRaised(IF does.error THEN "Error" ELSE "TimeoutError")

\* the first driver call, of those the page answered with `does`, that fails
\* (0: none does)
FirstFailing(does) ==
    IF \E i \in DOMAIN does : Fails(does[i])
    THEN CHOOSE i \in DOMAIN does : Fails(does[i]) /\ \A j \in 1..(i - 1) : ~Fails(does[j])
    ELSE 0

\* C22: navigate, reload, go_back and go_forward return only after the wait
\* for the network-idle state that follows the navigation step has ended
\* with the page settled; a page that loads but does not settle within the
\* timeout makes the call raise TimeoutError.
C22_NavigationSettlesOrTimesOut ==
    ui_last.op \in {"navigate", "reload", "go_back", "go_forward"}
        => LET settles == ui_last.does[2]
           IN  /\ ui_last.call.outcome = "returned"
                    => /\ Len(ui_last.steps) = 2
                       /\ ui_last.steps[2].call = "wait_for_load_state"
                       /\ met(settles.first_holds, {base_page.timeout})
               /\ Fails(settles) => ui_last.call.outcome = "raised"
               /\ (~Fails(ui_last.does[1]) /\ ~settles.error /\ Fails(settles))
                    => ui_last.call = UiRaised("TimeoutError")

\* reload of a page that reloads at once and never settles
C22_Witness ==
    /\ ui_last.op = "reload"
    /\ ui_last.does[1].first_holds = {0}
    /\ ui_last.does[2] = [first_holds |-> {}, error |-> FALSE]
    /\ ui_last.call = UiRaised("TimeoutError")

\* the driver calls of the composite actions, in the order written
Written(op) ==
    CASE op = "click_login" ->
           <<Step("click", "MY_ACCOUNT_DROPDOWN", ""), Step("click", "LOGIN_LINK", ""),
             Step("wait_for_load_state", "", "")>>
      [] op = "click_register" ->
           <<Step("click", "MY_ACCOUNT_DROPDOWN", ""), Step("click", "REGISTER_LINK", ""),
             Step("wait_for_load_state", "", "")>>
      [] op = "search_product" ->
           <<Step("fill", "SEARCH_INPUT", "a"), Step("click", "SEARCH_BUTTON", ""),
             Step("wait_for_load_state", "", "")>>
      [] op = "login" ->
           <<Step("fill", "EMAIL_INPUT", "a"), Step("fill", "PASSWORD_INPUT", "b"),
             Step("click", "LOGIN_BUTTON", ""), Step("wait_for_load_state", "", "")>>

\* C23: click_login, click_register, search_product and LoginPage.login
\* make their driver calls in the order written; when call i raises, the
\* calls after i are not made and the action raises what call i raised;
\* when none raises all are made and the action returns.
C23_CompositeStepsInOrder ==
    ui_last.op \in {"click_login", "click_register", "search_product", "login"}
        => LET i == FirstFailing(ui_last.does)
           IN  IF i = 0
               THEN /\ ui_last.steps = Written(ui_last.op)
                    /\ ui_last.call.outcome = "returned"
               ELSE /\ ui_last.steps = SubSeq(Written(ui_last.op), 1, i)
                    /\ ui_last.call = Raises(ui_last.does[i])

\* click_login whose second click found no element in time: the wait for
\* load was not made
C23_Witness ==
    /\ ui_last.op = "click_login"
    /\ Len(ui_last.steps) = 2
    /\ ui_last.steps[2].locator = "LOGIN_LINK"
    /\ ui_last.call = UiRaised("TimeoutError")

\* C24: fill replaces: after fill(t) has returned the input holds exactly
\* t whatever it held before, and after clear_and_fill(t) as well.
C24_FillReplaces ==
    (ui_last.op \in {"fill", "clear_and_fill"} /\ ui_last.call.outcome = "returned")
        => page.field = ui_last.steps[Len(ui_last.steps)].text

\* fill("b") on an input that held "a"
C24_Witness ==
    /\ ui_last.op = "fill"
    /\ ui_last.before = "a"
    /\ ui_last.call.outcome = "returned"
    /\ page.field = "b"

\* C25: BasePage.screenshot and screenshot_element are best-effort: no
\* failure of the capture is raised to the caller.
C25_BasePageScreenshotBestEffort ==
    ui_last.op \in {"screenshot", "screenshot_element"} => ui_last.call.outcome = "returned"

\* C26: once login has returned, every request the client sends to its
\* base_url carries the OCSESSID cookie with the stored api_token as its
\* value, whatever host the base_url names.
C26_CookieCarriesToken ==
    (/\ logged_in
     /\ last.op \notin {"init", "login", "assert_success"}
     /\ last.call.sent # <<>>)
        => cookie_header(client_host, cookies) = api_token

\* C27: when login has returned normally the client is authenticated: the
\* authentication check of the get or post that follows passes, whatever
\* api_token value the accepted body held.
C27_LoginReturnedMeansAuthenticated ==
    (last.op = "login" /\ last.call.outcome = "returned")
        => ensure_authenticated(api_token)

\* C28: every session the driver fixture got from the grid is quit: once
\* the teardown of a test was reported the grid holds no live session, also
\* when a command after the creation of the session raised in the setup.
C28_EverySessionQuit ==
    runner.phase \in {"idle", "ended"} => grid.live = 0

\* ENABLE_AI_ANALYSIS is unset or spells "true" in whatever case
EnabledByEnv ==
    \/ runner.env = {}
    \/ \E v \in runner.env :
         /\ Len(v) = 4
         /\ v[1] \in {"t", "T"} /\ v[2] \in {"r", "R"}
         /\ v[3] \in {"u", "U"} /\ v[4] \in {"e", "E"}

C30_PersistenceTestCleansCart ==
    /\ (pc.at = "cleaning" /\ todo = <<>>) => cart = <<>>
    /\ pc.at = "got1" => Len(todo) = 1
    /\ pc.at = "got2" => last.call.value.products = todo

====
